---- MODULE Spec2Model ----
(***************************************************************************)
(* jwt-ui: the process entry point (src/main.rs) with its two paths, the   *)
(* stdout path and the interactive session loop, the terminal set-up and   *)
(* teardown around the loop, and the panic hook.  The modules app, event   *)
(* and handlers are declared by main.rs but are not part of the source     *)
(* tree at hand; their behaviour is taken from the design document.        *)
(***************************************************************************)
EXTENDS Integers, Sequences, FiniteSets, TLC

VARIABLES
  cli,          \* the parsed command line (struct Cli)
  pc,           \* position of the main thread in main / start_ui / shutdown / panic_hook
  exit,         \* how the process ended: "none" while running
  app,          \* the App behind Arc<Mutex<App>>
  lockHeld,     \* the main thread holds the MutexGuard of app
  terminal,     \* raw mode, alternate screen, cursor, Terminal value
  events,       \* the Events value: started, channel
  termSize,     \* what terminal.backend().size() returned in this iteration
  output,       \* what the process has written to stdout/stderr, in order
  panicAt,      \* where the panic was raised ("none" when there was none)
  frames,       \* number of completed terminal.draw calls
  lastFrame,    \* the App fields the last frame was drawn from
  consumed,     \* number of events taken from the channel
  emitted,      \* number of events the event thread has sent
  handled,      \* handlers invoked for the last consumed event
  loopExit,     \* why the session loop was left
  everRaw,      \* enable_raw_mode has succeeded at some point
  teardowns     \* completed terminal restorations (raw mode off + screen left)

vars == <<cli, pc, exit, app, lockHeld, terminal, events, termSize, output,
          panicAt, frames, lastFrame, consumed, emitted, handled, loopExit,
          everRaw, teardowns>>

----------------------------------------------------------------------------
(* Bounds *)

\* events the event thread sends in one run
MaxEvents == 4
\* events that may wait in the channel at once (the channel itself is unbounded)
MaxQueue == 2
\* key presses applied in the handler-only specification
MaxKeys == 5

\* main.rs:63  `if cli.tick_rate >= 1000`
TickRateLimit == 1000

----------------------------------------------------------------------------
(* Strings are sequences of characters.  "j" stands for a base64url segment *)
(* that decodes to a JSON object, "s" and the letters for base64url text    *)
(* that does not, "!" for a character outside the base64url alphabet.       *)

Str(a) == <<a>>
EmptyStr == <<>>
B64Chars == {"j", "s", "e", "t", "q"}

TokGood == <<"j", ".", "j", ".", "s">>
TokTwoSegs == <<"j", ".", "j">>
TokBadEnc == <<"j", ".", "!", ".", "s">>
TokBadJson == <<"s", ".", "j", ".", "s">>

RECURSIVE Split(_)
\* token.split('.'): the segments between the dots, empty ones included
Split(s) ==
  IF \A i \in 1..Len(s) : s[i] # "."
  THEN <<s>>
  ELSE LET d == CHOOSE i \in 1..Len(s) : s[i] = "." /\ \A j \in 1..(i-1) : s[j] # "."
       IN <<SubSeq(s, 1, d-1)>> \o Split(SubSeq(s, d+1, Len(s)))

\* base64url + JSON decoding of one of the first two segments
SegmentError(seg) ==
  IF \E i \in 1..Len(seg) : seg[i] \notin B64Chars THEN "InvalidEncoding"
  ELSE IF seg # Str("j") THEN "InvalidJson"
  ELSE ""

\* TokenCodec.decode: "" or the DecodeError
DecodeError(token) ==
  LET segs == Split(token) IN
  IF Len(segs) # 3 THEN "MalformedToken"
  ELSE IF SegmentError(segs[1]) # "" THEN SegmentError(segs[1])
  ELSE SegmentError(segs[2])

\* TokenValidator.validate, reduced to the secret / signature comparison
Validate(signature_raw, secret) ==
  IF secret = EmptyStr THEN "Unverified"
  ELSE IF signature_raw = secret THEN "Valid"
  ELSE "InvalidSignature"

NoResult == [decoded |-> FALSE, header |-> EmptyStr, claims |-> EmptyStr,
             signature_raw |-> EmptyStr, validity |-> "Unverified"]

DecodeResult(token, secret) ==
  LET segs == Split(token) IN
  [decoded |-> TRUE, header |-> segs[1], claims |-> segs[2],
   signature_raw |-> segs[3], validity |-> Validate(segs[3], secret)]

\* a failed decode that wipes the previous result
ResultAfterFailedDecodeCleared(a) == NoResult

\* what a failed decode does to `result`
ResultAfterFailedDecode(a) == a.result

\* app::jwt_decoder::decode_jwt_token(&mut app)
decode_jwt_token(a) ==
  IF DecodeError(a.token) = ""
  THEN [a EXCEPT !.result = DecodeResult(a.token, a.secret), !.error = ""]
  ELSE [a EXCEPT !.result = ResultAfterFailedDecode(a), !.error = DecodeError(a.token)]

----------------------------------------------------------------------------
(* App and the handlers *)

Modes == {"Viewing", "EditingToken", "EditingSecret"}
Tabs == {"Header", "Payload", "Secret"}
Sizes == {"80x24", "120x40"}

NextTab(t) == CASE t = "Header" -> "Payload" [] t = "Payload" -> "Secret" [] OTHER -> "Header"

NoApp == [token |-> EmptyStr, secret |-> EmptyStr, result |-> NoResult, error |-> "",
          mode |-> "Viewing", active_tab |-> "Header", input_buffer |-> EmptyStr,
          should_quit |-> FALSE, size |-> "0x0", constructed |-> FALSE]

\* App::new(tick_rate, token, secret)
AppNew(c) ==
  [NoApp EXCEPT !.token = IF c.token.some THEN c.token.value ELSE EmptyStr,
                !.secret = c.secret,
                !.constructed = TRUE]

Keys == {"Ctrl-c", "q", "Tab", "e", "t", ".", "Backspace", "Enter", "Esc"}
CharKeys == {"q", "e", "t", "."}

\* the mode a commit (Enter) leaves the session in
ModeAfterCommit(decodeFailed) == "Viewing"

handle_viewing(key, a) ==
  CASE key = "Tab" -> [a EXCEPT !.active_tab = NextTab(a.active_tab)]
    [] key = "e" /\ a.active_tab = "Secret" ->
         [a EXCEPT !.mode = "EditingSecret", !.input_buffer = a.secret]
    [] key = "t" -> [a EXCEPT !.mode = "EditingToken", !.input_buffer = a.token]
    [] key = "q" -> [a EXCEPT !.should_quit = TRUE]
    [] OTHER -> a

handle_editing(key, a) ==
  CASE key \in CharKeys -> [a EXCEPT !.input_buffer = Append(a.input_buffer, key)]
    [] key = "Backspace" ->
         [a EXCEPT !.input_buffer =
            IF Len(a.input_buffer) = 0 THEN EmptyStr
            ELSE SubSeq(a.input_buffer, 1, Len(a.input_buffer) - 1)]
    [] key = "Enter" ->
         LET committed == IF a.mode = "EditingToken"
                          THEN [a EXCEPT !.token = a.input_buffer]
                          ELSE [a EXCEPT !.secret = a.input_buffer]
             decoded == decode_jwt_token(committed)
         IN [decoded EXCEPT !.mode = ModeAfterCommit(decoded.error # ""),
                            !.input_buffer = EmptyStr]
    [] key = "Esc" -> [a EXCEPT !.mode = "Viewing", !.input_buffer = EmptyStr]
    [] OTHER -> a

\* handlers::handle_key_events(key, key_event, &mut app)
handle_key_events(key, a) ==
  IF a.mode = "Viewing" THEN handle_viewing(key, a) ELSE handle_editing(key, a)

\* handlers::handle_mouse_events(mouse, &mut app)
handle_mouse_events(a) == a

\* App::on_tick
on_tick(a) == a

----------------------------------------------------------------------------
(* Command line *)

None == [some |-> FALSE, value |-> EmptyStr]
Some(v) == [some |-> TRUE, value |-> v]

AllTokens == {None, Some(TokGood), Some(TokTwoSegs), Some(TokBadEnc), Some(TokBadJson)}
\* the tokens the whole-process specification starts from
Tokens == {None, Some(TokGood), Some(TokTwoSegs)}
Secrets == {EmptyStr, Str("s")}
TickRates == {TickRateLimit - 1, TickRateLimit, TickRateLimit + 1}

Cli == [token : Tokens, stdout : BOOLEAN, json : BOOLEAN,
        tick_rate : TickRates, secret : Secrets]

\* The command lines the process is started with: every one that ends at the
\* tick rate check or takes the stdout path; of those that enter the session,
\* which reads neither --json nor (outside App::new) --secret, the ones
\* without these two options.
CliRuns ==
  {c \in Cli : \/ c.tick_rate >= TickRateLimit
               \/ c.stdout /\ c.token.some
               \/ ~c.json /\ c.secret = EmptyStr}

\* the check with > in place of >=
TickRateRejectedStrict(t) == t > TickRateLimit

\* main.rs:63
TickRateRejected(t) == t >= TickRateLimit

\* the branch with is_none in place of is_some
TakesStdoutPathIsNone(c) == c.stdout /\ ~c.token.some

\* the branch without the token test
TakesStdoutPathStdoutOnly(c) == c.stdout

\* main.rs:74
TakesStdoutPath(c) == c.stdout /\ c.token.some

\* main.rs:78-82: the one println! of the stdout path
StdoutLine(a, json) ==
  IF a.error = "" /\ a.result.decoded
  THEN [kind |-> "result", format |-> IF json THEN "json" ELSE "plain",
        text |-> a.result.validity]
  ELSE [kind |-> "error", format |-> "plain", text |-> a.error]

\* a main that turns a decode error into its own error
StdoutReturnErrOnDecodeError(a) == IF a.error = "" THEN "ok" ELSE "err"

\* main.rs:89: what main returns on the stdout path
StdoutReturn(a) == "ok"

----------------------------------------------------------------------------
(* Terminal and events *)

NoTerminal == [raw |-> FALSE, alt |-> FALSE, created |-> FALSE, cursor_hidden |-> FALSE]
NoEvents == [started |-> FALSE, channel |-> <<>>]

\* the Terminal value goes out of scope: its Drop shows a hidden cursor
DropTerminal(t) ==
  IF t.created THEN [t EXCEPT !.created = FALSE, !.cursor_hidden = FALSE] ELSE t

\* the keys the event thread reports in the whole-process specification
SessionKeys == {"Ctrl-c", "q", "Tab", "e", "t", "Enter"}

EventKinds ==
  [type : {"Input"}, key : SessionKeys] \cup
  {[type |-> "MouseInput", key |-> "none"], [type |-> "Tick", key |-> "none"]}

\* the comparison against another key
IsCtrlCWrongKey(key) == key = "Ctrl-d"

\* main.rs:126
IsCtrlC(key) == key = "Ctrl-c"

\* a match whose Tick arm calls the key handler
DispatchTickToKeyHandler(ev) ==
  CASE ev.type = "Input" -> "key"
    [] ev.type = "MouseInput" -> "mouse"
    [] OTHER -> "key"

\* main.rs:121-138: the arm of the match that handles an event
Dispatch(ev) ==
  CASE ev.type = "Input" -> "key"
    [] ev.type = "MouseInput" -> "mouse"
    [] OTHER -> "tick"

ApplyHandler(h, ev, a) ==
  CASE h = "key" -> handle_key_events(ev.key, a)
    [] h = "mouse" -> handle_mouse_events(a)
    [] OTHER -> on_tick(a)

\* a loop without the quit check
ShouldBreakNever(a) == FALSE

\* a loop that also breaks when the App holds an error
ShouldBreakOnError(a) == a.should_quit \/ a.error # ""

\* main.rs:140
ShouldBreak(a) == a.should_quit

InLoop == pc \in {"loop_lock", "loop_draw", "loop_next", "loop_quit"}

----------------------------------------------------------------------------
(* Initial state: the process has parsed its arguments *)

Init ==
  /\ cli \in CliRuns
  /\ pc = "main"
  /\ exit = "none"
  /\ app = NoApp
  /\ lockHeld = FALSE
  /\ terminal = NoTerminal
  /\ events = NoEvents
  /\ termSize = "none"
  /\ output = <<>>
  /\ panicAt = "none"
  /\ frames = 0
  /\ lastFrame = NoApp
  /\ consumed = 0
  /\ emitted = 0
  /\ handled = {}
  /\ loopExit = "none"
  /\ everRaw = FALSE
  /\ teardowns = 0

----------------------------------------------------------------------------
(* The process ends.  What is left is what lives outside it: the terminal, *)
(* what was printed, how it ended and what it did; the App, the Events     *)
(* value and the other locals go with the process.                         *)

ProcessEnds(how, term, out, why) ==
  /\ pc' = "exited"
  /\ exit' = how
  /\ terminal' = term
  /\ output' = out
  /\ loopExit' = why
  /\ app' = NoApp
  /\ lockHeld' = FALSE
  /\ events' = NoEvents
  /\ termSize' = "none"
  /\ lastFrame' = NoApp
  /\ UNCHANGED <<cli, panicAt, frames, consumed, emitted, handled, everRaw, teardowns>>

\* a `?` of start_ui or shutdown takes the error: start_ui returns Err, its
\* locals are dropped, main.rs:86 hands the error on and main returns it
ReturnErr(what) ==
  ProcessEnds("err", DropTerminal(terminal),
              Append(output, [kind |-> "fatal", format |-> "plain", text |-> what]),
              IF InLoop THEN "error" ELSE loopExit)

\* the main thread moves on to `next`, changing nothing but the terminal
Step(next, term) ==
  /\ pc' = next
  /\ terminal' = term
  /\ UNCHANGED <<cli, exit, app, lockHeld, events, termSize, output, panicAt, frames,
                 lastFrame, consumed, emitted, handled, loopExit, everRaw, teardowns>>

----------------------------------------------------------------------------
(* panic!, the hook installed at main.rs:56-58, and the unwinding after it *)

PanicFrom(where) ==
  /\ pc' = "hook_raw"
  /\ panicAt' = where
  /\ loopExit' = IF InLoop THEN "panic" ELSE loopExit
  /\ UNCHANGED <<cli, exit, app, lockHeld, terminal, events, termSize, output, frames,
                 lastFrame, consumed, emitted, handled, everRaw, teardowns>>

\* a hook without the disable_raw_mode call
PanicHookKeepsRawMode ==
  /\ pc = "hook_raw"
  /\ Step("hook_alt", terminal)

\* main.rs:176 / 199  disable_raw_mode().unwrap()
PanicHookDisableRaw ==
  /\ pc = "hook_raw"
  /\ \/ Step("hook_alt", [terminal EXCEPT !.raw = FALSE])
     \/ ProcessEnds("abort", terminal, output, loopExit)

\* main.rs:177-179 / 200  execute!(io::stdout(), LeaveAlternateScreen, ...).unwrap()
PanicHookLeave ==
  /\ pc = "hook_alt"
  /\ \/ /\ terminal' = [terminal EXCEPT !.alt = FALSE]
        /\ teardowns' = teardowns + 1
        /\ pc' = "hook_report"
        /\ UNCHANGED <<cli, exit, app, lockHeld, events, termSize, output, panicAt, frames,
                       lastFrame, consumed, emitted, handled, loopExit, everRaw>>
     \/ ProcessEnds("abort", terminal, output, loopExit)

\* main.rs:180-183 / 201  Print(..) after LeaveAlternateScreen / print_msg
PanicHookReport ==
  /\ pc = "hook_report"
  /\ output' = Append(output, [kind |-> "panic", format |-> "plain", text |-> panicAt])
  /\ pc' = "unwind"
  /\ UNCHANGED <<cli, exit, app, lockHeld, terminal, events, termSize, panicAt, frames,
                 lastFrame, consumed, emitted, handled, loopExit, everRaw, teardowns>>

\* the panic unwinds main: locals are dropped and the process ends
Unwind ==
  /\ pc = "unwind"
  /\ ProcessEnds("panic", DropTerminal(terminal), output, loopExit)

----------------------------------------------------------------------------
(* main *)

\* main.rs:63-65
MainCheckTickRate ==
  /\ pc = "main"
  /\ IF TickRateRejected(cli.tick_rate)
     THEN PanicFrom("tick_rate")
     ELSE Step("app_new", terminal)

\* main.rs:68-74
MainAppNew ==
  /\ pc = "app_new"
  /\ app' = AppNew(cli)
  /\ pc' = IF TakesStdoutPath(cli) THEN "stdout_decode" ELSE "ui_raw"
  /\ UNCHANGED <<cli, exit, lockHeld, terminal, events, termSize, output, panicAt, frames,
                 lastFrame, consumed, emitted, handled, loopExit, everRaw, teardowns>>

\* main.rs:76-77
StdoutDecode ==
  /\ pc = "stdout_decode"
  /\ lockHeld' = TRUE
  /\ app' = decode_jwt_token(app)
  /\ pc' = "stdout_print"
  /\ UNCHANGED <<cli, exit, terminal, events, termSize, output, panicAt, frames,
                 lastFrame, consumed, emitted, handled, loopExit, everRaw, teardowns>>

\* main.rs:78-89
StdoutPrint ==
  /\ pc = "stdout_print"
  /\ ProcessEnds(StdoutReturn(app), terminal,
                 Append(output, StdoutLine(app, cli.json)), loopExit)

----------------------------------------------------------------------------
(* start_ui *)

\* main.rs:94
UiEnableRaw ==
  /\ pc = "ui_raw"
  /\ \/ /\ terminal' = [terminal EXCEPT !.raw = TRUE]
        /\ everRaw' = TRUE
        /\ pc' = "ui_alt"
        /\ UNCHANGED <<cli, exit, app, lockHeld, events, termSize, output, panicAt, frames,
                       lastFrame, consumed, emitted, handled, loopExit, teardowns>>
     \/ ReturnErr("enable_raw_mode")

\* main.rs:96-98
UiEnterAlternateScreen ==
  /\ pc = "ui_alt"
  /\ \/ Step("ui_term", [terminal EXCEPT !.alt = TRUE])
     \/ ReturnErr("EnterAlternateScreen")

\* main.rs:100-101
UiTerminalNew ==
  /\ pc = "ui_term"
  /\ \/ Step("ui_clear", [terminal EXCEPT !.created = TRUE])
     \/ ReturnErr("Terminal::new")

\* main.rs:102
UiClear ==
  /\ pc = "ui_clear"
  /\ \/ Step("ui_hide", terminal)
     \/ ReturnErr("clear")

\* main.rs:103
UiHideCursor ==
  /\ pc = "ui_hide"
  /\ \/ Step("ui_events", [terminal EXCEPT !.cursor_hidden = TRUE])
     \/ ReturnErr("hide_cursor")

\* main.rs:105  event::Events::new(cli.tick_rate): the event thread starts
UiEventsNew ==
  /\ pc = "ui_events"
  /\ events' = [events EXCEPT !.started = TRUE]
  /\ pc' = "loop_lock"
  /\ UNCHANGED <<cli, exit, app, lockHeld, terminal, termSize, output, panicAt, frames,
                 lastFrame, consumed, emitted, handled, loopExit, everRaw, teardowns>>

\* The event thread sends one event into the channel.  The loop reads the
\* channel only in events.next(), so a send at any other point of an iteration
\* has the effect of the same send during the next draw, and a send while
\* next() still has an event to return that of a send during the draw after
\* it: sends are taken while a frame is being drawn and while next() is
\* blocked on the empty channel.  What is sent once the loop has been left is
\* never received and is left out.
EventThreadSend ==
  /\ events.started
  /\ \/ pc = "loop_draw"
     \/ pc = "loop_next" /\ events.channel = <<>>
  /\ emitted < MaxEvents
  /\ Len(events.channel) < MaxQueue
  /\ \E e \in EventKinds :
       events' = [events EXCEPT !.channel =
                    Append(@, [type |-> e.type, key |-> e.key, seq |-> emitted + 1,
                               during_draw |-> (pc = "loop_draw")])]
  /\ emitted' = emitted + 1
  /\ UNCHANGED <<cli, pc, exit, app, lockHeld, terminal, termSize, output, panicAt, frames,
                 lastFrame, consumed, handled, loopExit, everRaw, teardowns>>

\* a sample that is only taken into an App that has no size yet
SampleSizeOnlyFirst(a, r) ==
  IF r # "Err" /\ a.size = "0x0" THEN [a EXCEPT !.size = r] ELSE a

\* a failed sample that resets the size
SampleSizeDefaultOnErr(a, r) ==
  IF r = "Err" THEN [a EXCEPT !.size = "0x0"]
  ELSE IF a.size # r THEN [a EXCEPT !.size = r] ELSE a

\* main.rs:110-115  `if let Ok(size) = ... { if app.size != size { app.size = size } }`
SampleSize(a, r) ==
  IF r # "Err" /\ a.size # r THEN [a EXCEPT !.size = r] ELSE a

\* the guard dropped right after the size sample
LoopLockAndSizeDropsGuard ==
  /\ pc = "loop_lock"
  /\ ~lockHeld
  /\ lockHeld' = FALSE
  /\ \E r \in Sizes \cup {"Err"} :
       /\ termSize' = r
       /\ app' = SampleSize(app, r)
  /\ pc' = "loop_draw"
  /\ UNCHANGED <<cli, exit, terminal, events, output, panicAt, frames,
                 lastFrame, consumed, emitted, handled, loopExit, everRaw, teardowns>>

\* main.rs:108-115  lock the App, then sample the terminal size
LoopLockAndSize ==
  /\ pc = "loop_lock"
  /\ ~lockHeld
  /\ lockHeld' = TRUE
  /\ \E r \in Sizes \cup {"Err"} :
       /\ termSize' = r
       /\ app' = SampleSize(app, r)
  /\ pc' = "loop_draw"
  /\ UNCHANGED <<cli, exit, terminal, events, output, panicAt, frames,
                 lastFrame, consumed, emitted, handled, loopExit, everRaw, teardowns>>

\* a draw that discards the events that arrived meanwhile
LoopDrawDropsPending ==
  /\ pc = "loop_draw"
  /\ \/ /\ frames' = frames + 1
        /\ lastFrame' = app
        /\ events' = [events EXCEPT !.channel = <<>>]
        /\ pc' = "loop_next"
        /\ UNCHANGED <<cli, exit, app, lockHeld, terminal, termSize, output, panicAt,
                       consumed, emitted, handled, loopExit, everRaw, teardowns>>
     \/ ReturnErr("draw")

\* main.rs:118  terminal.draw(|f| ui::draw(f, &mut app))?
LoopDraw ==
  /\ pc = "loop_draw"
  /\ \/ /\ frames' = frames + 1
        /\ lastFrame' = app
        /\ pc' = "loop_next"
        /\ UNCHANGED <<cli, exit, app, lockHeld, terminal, events, termSize, output, panicAt,
                       consumed, emitted, handled, loopExit, everRaw, teardowns>>
     \/ ReturnErr("draw")

\* main.rs:118  the draw closure panics
LoopDrawPanic ==
  /\ pc = "loop_draw"
  /\ PanicFrom("draw")

\* main.rs:121  events.next()? returns Err: the channel is empty and closed
LoopNextErr ==
  /\ pc = "loop_next"
  /\ events.channel = <<>>
  /\ ReturnErr("events.next")

\* an iteration that also takes and handles a second waiting event
LoopNextTakesTwo ==
  /\ pc = "loop_next"
  /\ events.channel # <<>>
  /\ LET ev == Head(events.channel)
         rest == Tail(events.channel)
         ctrlc == ev.type = "Input" /\ IsCtrlC(ev.key)
         more == rest # <<>> /\ ~ctrlc
         a1 == ApplyHandler(Dispatch(ev), ev, app)
     IN
       /\ events' = [events EXCEPT !.channel = IF more THEN Tail(rest) ELSE rest]
       /\ consumed' = consumed + (IF more THEN 2 ELSE 1)
       /\ IF ctrlc
          THEN /\ handled' = {}
               /\ lockHeld' = FALSE
               /\ loopExit' = "ctrlc"
               /\ pc' = "ui_show"
               /\ UNCHANGED app
          ELSE /\ handled' = IF more THEN {Dispatch(ev), Dispatch(Head(rest))}
                                     ELSE {Dispatch(ev)}
               /\ app' = IF more THEN ApplyHandler(Dispatch(Head(rest)), Head(rest), a1)
                                 ELSE a1
               /\ pc' = "loop_quit"
               /\ UNCHANGED <<lockHeld, loopExit>>
  /\ UNCHANGED <<cli, exit, terminal, termSize, output, panicAt, frames,
                 lastFrame, emitted, everRaw, teardowns>>

\* main.rs:121-138  events.next()? returns an event and the match handles it
LoopNext ==
  /\ pc = "loop_next"
  /\ events.channel # <<>>
  /\ LET ev == Head(events.channel) IN
       /\ events' = [events EXCEPT !.channel = Tail(@)]
       /\ consumed' = consumed + 1
       /\ IF ev.type = "Input" /\ IsCtrlC(ev.key)
          THEN /\ handled' = {}
               /\ lockHeld' = FALSE
               /\ loopExit' = "ctrlc"
               /\ pc' = "ui_show"
               /\ UNCHANGED app
          ELSE /\ handled' = {Dispatch(ev)}
               /\ app' = ApplyHandler(Dispatch(ev), ev, app)
               /\ pc' = "loop_quit"
               /\ UNCHANGED <<lockHeld, loopExit>>
  /\ UNCHANGED <<cli, exit, terminal, termSize, output, panicAt, frames,
                 lastFrame, emitted, everRaw, teardowns>>

\* an iteration end that keeps the guard
LoopQuitCheckKeepsGuard ==
  /\ pc = "loop_quit"
  /\ IF ShouldBreak(app)
     THEN pc' = "ui_show" /\ loopExit' = "quit"
     ELSE pc' = "loop_lock" /\ UNCHANGED loopExit
  /\ UNCHANGED <<cli, exit, app, lockHeld, terminal, events, termSize, output, panicAt,
                 frames, lastFrame, consumed, emitted, handled, everRaw, teardowns>>

\* an iteration end that goes straight back to events.next()
LoopQuitCheckSkipsDraw ==
  /\ pc = "loop_quit"
  /\ IF ShouldBreak(app)
     THEN pc' = "ui_show" /\ loopExit' = "quit" /\ lockHeld' = FALSE
     ELSE pc' = "loop_next" /\ UNCHANGED <<loopExit, lockHeld>>
  /\ UNCHANGED <<cli, exit, app, terminal, events, termSize, output, panicAt, frames,
                 lastFrame, consumed, emitted, handled, everRaw, teardowns>>

\* main.rs:140-143
LoopQuitCheck ==
  /\ pc = "loop_quit"
  /\ lockHeld' = FALSE
  /\ IF ShouldBreak(app)
     THEN pc' = "ui_show" /\ loopExit' = "quit"
     ELSE pc' = "loop_lock" /\ UNCHANGED loopExit
  /\ UNCHANGED <<cli, exit, app, terminal, events, termSize, output, panicAt, frames,
                 lastFrame, consumed, emitted, handled, everRaw, teardowns>>

\* main.rs:145
UiShowCursor ==
  /\ pc = "ui_show"
  /\ \/ Step("sd_raw", [terminal EXCEPT !.cursor_hidden = FALSE])
     \/ ReturnErr("show_cursor")

----------------------------------------------------------------------------
(* shutdown *)

\* main.rs:153
ShutdownDisableRaw ==
  /\ pc = "sd_raw"
  /\ \/ Step("sd_alt", [terminal EXCEPT !.raw = FALSE])
     \/ ReturnErr("disable_raw_mode")

\* main.rs:154
ShutdownLeaveAlternateScreen ==
  /\ pc = "sd_alt"
  /\ \/ /\ terminal' = [terminal EXCEPT !.alt = FALSE]
        /\ teardowns' = teardowns + 1
        /\ pc' = "sd_show"
        /\ UNCHANGED <<cli, exit, app, lockHeld, events, termSize, output, panicAt, frames,
                       lastFrame, consumed, emitted, handled, loopExit, everRaw>>
     \/ ReturnErr("LeaveAlternateScreen")

\* main.rs:155-156, 148, 89
ShutdownShowCursor ==
  /\ pc = "sd_show"
  /\ \/ ProcessEnds("ok", DropTerminal([terminal EXCEPT !.cursor_hidden = FALSE]),
                    output, loopExit)
     \/ ReturnErr("show_cursor")

----------------------------------------------------------------------------

Next ==
  \/ MainCheckTickRate
  \/ MainAppNew
  \/ StdoutDecode
  \/ StdoutPrint
  \/ UiEnableRaw
  \/ UiEnterAlternateScreen
  \/ UiTerminalNew
  \/ UiClear
  \/ UiHideCursor
  \/ UiEventsNew
  \/ EventThreadSend
  \/ LoopLockAndSize
  \/ LoopDraw
  \/ LoopDrawPanic
  \/ LoopNextErr
  \/ LoopNext
  \/ LoopQuitCheck
  \/ UiShowCursor
  \/ ShutdownDisableRaw
  \/ ShutdownLeaveAlternateScreen
  \/ ShutdownShowCursor
  \/ PanicHookDisableRaw
  \/ PanicHookLeave
  \/ PanicHookReport
  \/ Unwind

Spec == Init /\ [][Next]_vars

----------------------------------------------------------------------------
(* The key handler on its own: keys arrive one at a time and are handled, *)
(* starting from every App that App::new can build.                       *)

CliH == [token : AllTokens, stdout : {FALSE}, json : {FALSE},
         tick_rate : {TickRateLimit - 1}, secret : Secrets]

InitH ==
  /\ cli \in CliH
  /\ pc = "handlers"
  /\ exit = "none"
  /\ app = AppNew(cli)
  /\ lockHeld = TRUE
  /\ terminal = [raw |-> TRUE, alt |-> TRUE, created |-> TRUE, cursor_hidden |-> TRUE]
  /\ events = [started |-> TRUE, channel |-> <<>>]
  /\ termSize = "none"
  /\ output = <<>>
  /\ panicAt = "none"
  /\ frames = 0
  /\ lastFrame = NoApp
  /\ consumed = 0
  /\ emitted = 0
  /\ handled = {}
  /\ loopExit = "none"
  /\ everRaw = TRUE
  /\ teardowns = 0

KeyArrives ==
  /\ pc = "handlers"
  /\ events.channel = <<>>
  /\ ~app.should_quit
  /\ emitted < MaxKeys
  /\ \E k \in Keys \ {"Ctrl-c"} :
       events' = [events EXCEPT !.channel =
                    <<[type |-> "Input", key |-> k, seq |-> emitted + 1,
                       during_draw |-> FALSE]>>]
  /\ emitted' = emitted + 1
  /\ UNCHANGED <<cli, pc, exit, app, lockHeld, terminal, termSize, output, panicAt, frames,
                 lastFrame, consumed, handled, loopExit, everRaw, teardowns>>

KeyHandled ==
  /\ pc = "handlers"
  /\ events.channel # <<>>
  /\ app' = handle_key_events(Head(events.channel).key, app)
  /\ events' = [events EXCEPT !.channel = Tail(@)]
  /\ handled' = {"key"}
  /\ consumed' = consumed + 1
  /\ UNCHANGED <<cli, pc, exit, lockHeld, terminal, termSize, output, panicAt, frames,
                 lastFrame, emitted, loopExit, everRaw, teardowns>>

NextH == KeyArrives \/ KeyHandled

SpecHandlers == InitH /\ [][NextH]_vars

----------------------------------------------------------------------------
(* Properties *)

NextEvent == Head(events.channel)
ConsumesEvent == pc = "loop_next" /\ events.channel # <<>> /\ consumed' = consumed + 1
Last(q) == q[Len(q)]
StdoutRun == cli.stdout /\ cli.token.some /\ cli.tick_rate < TickRateLimit

\* C1: once raw mode has been entered, the terminal teardown (raw mode off and
\* alternate screen left) has run exactly once when the process has ended,
\* whatever the exit path.
C1_TeardownOnceOnEveryExit ==
  (exit # "none" /\ everRaw) => teardowns = 1

\* C2: when one of the terminal operations of the session fails, the process
\* ends with that error and the terminal is restored (raw mode off, alternate
\* screen left) by then.
C2_FatalErrorRestoresTerminal ==
  (exit = "err" /\ Last(output).text \in
      {"EnterAlternateScreen", "Terminal::new", "clear", "hide_cursor", "draw", "events.next"})
    => (~terminal.raw /\ ~terminal.alt)

\* C3: with tick_rate >= 1000 the process only ever panics at the check and no
\* UI resource is acquired in any state; with tick_rate < 1000 the check never
\* panics and start-up goes on to build the App.
C3_TickRateGate ==
  /\ cli.tick_rate >= TickRateLimit =>
       /\ pc \in {"main", "hook_raw", "hook_alt", "hook_report", "unwind", "exited"}
       /\ pc # "main" => panicAt = "tick_rate"
       /\ exit \in {"none", "panic", "abort"}
       /\ ~everRaw /\ ~terminal.raw /\ ~terminal.alt /\ ~terminal.created
       /\ ~events.started /\ ~app.constructed
  /\ cli.tick_rate < TickRateLimit =>
       /\ panicAt # "tick_rate"
       /\ pc \notin {"main", "app_new", "exited"} => app.constructed

C3_Witness ==
  cli.tick_rate = TickRateLimit /\ exit = "panic" /\ panicAt = "tick_rate"

\* C4: on the stdout path exactly one item is printed: the formatted result
\* when the decode succeeded, otherwise the error, as JSON with --json and as
\* plain text without it.
C4_StdoutPrintsOneLine ==
  (StdoutRun /\ pc = "exited") =>
    /\ Len(output) = 1
    /\ IF DecodeError(cli.token.value) = ""
       THEN output[1].kind = "result"
       ELSE /\ output[1].kind = "error"
            /\ output[1].format = (IF cli.json THEN "json" ELSE "plain")

\* C5: on the stdout path main returns Ok for every token, decodable or not.
C5_StdoutExitIsSuccess ==
  (StdoutRun /\ pc = "exited") => exit = "ok"

C5_Witness ==
  /\ StdoutRun /\ pc = "exited" /\ exit = "ok"
  /\ DecodeError(cli.token.value) # ""
  /\ Len(output) = 1 /\ output[1].kind = "error"

\* C6: on the stdout path the event thread is never started, no event is sent
\* or consumed, no handler runs, no frame is drawn and the terminal never
\* enters raw mode or the alternate screen.
C6_StdoutBypassesSession ==
  (cli.stdout /\ cli.token.some) =>
    /\ ~events.started /\ events.channel = <<>>
    /\ emitted = 0 /\ consumed = 0 /\ handled = {} /\ frames = 0
    /\ ~everRaw /\ ~terminal.raw /\ ~terminal.alt /\ ~terminal.created

C6_Witness ==
  /\ StdoutRun /\ pc = "exited"
  /\ Len(output) = 1 /\ output[1].kind = "result"

\* C7: consuming Ctrl-C leaves the loop without calling the key handler and
\* without changing the App, in whatever mode; after that no frame is drawn,
\* no event is consumed and the App stays as it is.
C7_CtrlCTerminates ==
  [][ /\ (ConsumesEvent /\ NextEvent.type = "Input" /\ NextEvent.key = "Ctrl-c") =>
           (app' = app /\ handled' = {} /\ loopExit' = "ctrlc" /\ pc' = "ui_show")
      /\ loopExit = "ctrlc" =>
           (/\ frames' = frames /\ consumed' = consumed /\ handled' = {}
            /\ loopExit' = "ctrlc"
            /\ pc' # "exited" => app' = app) ]_vars

C7_Witness ==
  loopExit = "ctrlc" /\ app.mode = "EditingSecret" /\ pc = "sd_show" /\ handled = {}

\* C8: in EditingToken mode, Enter on a buffer that does not decode sets a
\* non-empty error, keeps result as it was and returns to Viewing.
C8_FailedCommitKeepsResult ==
  [][ (/\ pc = "handlers" /\ events.channel # <<>> /\ consumed' = consumed + 1
       /\ NextEvent.key = "Enter"
       /\ app.mode = "EditingToken"
       /\ DecodeError(app.input_buffer) # "")
      => (app'.error # "" /\ app'.result = app.result /\ app'.mode = "Viewing") ]_vars

C8_Witness ==
  /\ pc = "handlers" /\ consumed > 0
  /\ app.mode = "Viewing" /\ app.error # "" /\ app.result.decoded
  /\ DecodeError(app.token) # ""

\* C9: a Tick leaves the mode as it is, runs the tick handler and no other,
\* and the loop then goes back to its head to render again.
C9_TickKeepsMode ==
  [][ /\ (ConsumesEvent /\ NextEvent.type = "Tick") =>
           (app'.mode = app.mode /\ handled' = {"tick"} /\ pc' = "loop_quit")
      /\ (pc = "loop_quit" /\ handled = {"tick"} /\ pc' # pc) => pc' = "loop_lock" ]_vars

C9_Witness ==
  /\ handled = {"tick"} /\ app.mode = "EditingSecret"
  /\ pc = "loop_next" /\ lastFrame = app /\ frames = consumed + 1

\* C10: once should_quit is set, no frame is drawn and no event is consumed,
\* and the next step of the loop leaves it.
C10_QuitExitsBeforeRender ==
  [][ /\ app.should_quit => (frames' = frames /\ consumed' = consumed)
      /\ (app.should_quit /\ pc = "loop_quit" /\ pc' # pc) =>
           (pc' = "ui_show" /\ loopExit' = "quit") ]_vars

C10_Witness ==
  app.should_quit /\ loopExit = "quit" /\ pc = "sd_show" /\ frames = consumed

\* C11: an iteration takes exactly one event, the oldest one waiting, calls at
\* most one handler for it and then leaves events.next(); so events are
\* applied one per iteration in the order in which they were sent.
C11_OneEventPerIteration ==
  [][ consumed' # consumed =>
        /\ pc = "loop_next" /\ pc' \in {"loop_quit", "ui_show"}
        /\ consumed' = consumed + 1
        /\ NextEvent.seq = consumed + 1
        /\ events'.channel = Tail(events.channel)
        /\ Cardinality(handled') <= 1
        /\ handled' = {} => app' = app ]_vars

C11_Witness ==
  /\ pc = "loop_quit" /\ consumed = 2 /\ handled = {"key"}
  /\ events.channel # <<>> /\ Head(events.channel).seq = 3
  /\ app.mode = "EditingToken"

\* C12: the channel holds, in the order sent, exactly the events sent and not
\* yet taken; an event sent while a frame is drawn is appended and the draw
\* goes on; finishing the draw leaves the channel as it is.
C12_NoEventLostToSlowRender ==
  [][ /\ (events.started /\ pc # "exited") =>
           /\ Len(events.channel) = emitted - consumed
           /\ \A i \in 1..Len(events.channel) : events.channel[i].seq = consumed + i
      /\ (pc = "loop_draw" /\ emitted' # emitted) =>
           /\ pc' = "loop_draw" /\ consumed' = consumed
           /\ Len(events'.channel) = Len(events.channel) + 1
           /\ SubSeq(events'.channel, 1, Len(events.channel)) = events.channel
           /\ Last(events'.channel).seq = emitted + 1
      /\ (pc = "loop_draw" /\ frames' # frames) => events' = events ]_vars

C12_Witness ==
  /\ pc = "loop_next" /\ frames = consumed + 1
  /\ Len(events.channel) >= 2
  /\ \A i \in 1..Len(events.channel) : events.channel[i].during_draw

\* C13: while a frame is drawn the loop holds the guard of the App and the App
\* does not change; the frame shows the App as it is; a constructed App is
\* only ever changed under the guard.
C13_DrawUnderLock ==
  [][ /\ pc = "loop_draw" =>
           /\ lockHeld
           /\ pc' # "exited" => (app' = app /\ lockHeld')
           /\ frames' # frames => lastFrame' = app
      /\ (app.constructed /\ app' # app /\ pc' # "exited") => lockHeld' ]_vars

C13_Witness ==
  /\ pc = "loop_next" /\ lockHeld /\ frames = 1 /\ lastFrame = app
  /\ events.channel # <<>> /\ Head(events.channel).during_draw

\* C14 as stated: the guard is taken once per iteration, at most one event is
\* applied under it, and it has been released when the frame is rendered.
C14_ReleasedBeforeRender ==
  [][ /\ (InLoop /\ ~lockHeld /\ lockHeld') => pc = "loop_lock"
      /\ consumed' # consumed => consumed' = consumed + 1
      /\ frames' # frames => ~lockHeld ]_vars

\* C14 amended: the guard is taken once per iteration, at its head; the frame
\* is rendered and at most one event is applied under that same guard; it is
\* released at the end of the iteration or when the loop is left.
C14_GuardSpansIteration ==
  [][ /\ InLoop => (lockHeld <=> pc # "loop_lock")
      /\ (InLoop /\ ~lockHeld /\ lockHeld') => (pc = "loop_lock" /\ pc' = "loop_draw")
      /\ frames' # frames => (lockHeld /\ lockHeld')
      /\ consumed' # consumed =>
           (lockHeld /\ consumed' = consumed + 1 /\ pc = "loop_next" /\ pc' # "loop_next")
      /\ pc = "loop_quit" =>
           (consumed' = consumed /\ frames' = frames /\ (pc' # pc => ~lockHeld'))
      /\ (pc = "loop_next" /\ pc' = "ui_show") => ~lockHeld' ]_vars

C14_Witness ==
  pc = "loop_draw" /\ lockHeld /\ frames = 1 /\ consumed = 1 /\ handled # {}

\* C15: the size of the App changes only in the size sample at the head of an
\* iteration, to the size sampled; after a successful sample the App has the
\* sampled size and the frame of that iteration is drawn with it.
C15_ViewportOnlyFromSample ==
  [][ /\ (app'.size # app.size /\ pc' # "exited") =>
           (pc = "loop_lock" /\ pc' = "loop_draw" /\ app'.size = termSize')
      /\ (pc = "loop_lock" /\ pc' = "loop_draw" /\ termSize' # "Err") =>
           app'.size = termSize'
      /\ (frames' # frames /\ termSize # "Err") => lastFrame'.size = termSize ]_vars

C15_Witness ==
  /\ pc = "loop_next" /\ frames = 2 /\ consumed = 1
  /\ termSize = "120x40" /\ lastFrame.size = "120x40"

\* C16: the loop is left only by Ctrl-C, by should_quit, by a draw that fails
\* (or panics) or by a failed events.next(); an event whose handling leaves an
\* error in the App goes on to the quit check, and without should_quit the
\* quit check goes back to the head of the loop.
C16_DecodeFailureKeepsLoop ==
  [][ /\ (loopExit = "none" /\ loopExit' # "none") =>
           \/ /\ pc = "loop_next" /\ events.channel # <<>>
              /\ NextEvent.key = "Ctrl-c" /\ loopExit' = "ctrlc"
           \/ pc = "loop_quit" /\ app.should_quit /\ loopExit' = "quit"
           \/ pc = "loop_draw" /\ loopExit' \in {"error", "panic"}
           \/ pc = "loop_next" /\ events.channel = <<>> /\ loopExit' = "error"
      /\ (ConsumesEvent /\ NextEvent.key # "Ctrl-c" /\ app'.error # "") =>
           (pc' = "loop_quit" /\ loopExit' = "none" /\ exit' = "none")
      /\ (pc = "loop_quit" /\ ~app.should_quit /\ pc' # pc) =>
           (pc' = "loop_lock" /\ loopExit' = "none" /\ exit' = "none") ]_vars

C16_Witness ==
  /\ pc = "loop_quit" /\ loopExit = "none" /\ consumed = 3
  /\ app.error # "" /\ lastFrame.error # ""

HasPanicReport == \E i \in 1..Len(output) : output[i].kind = "panic"

\* C17 as stated: once the hook has released the terminal, the terminal is in
\* the state shutdown leaves: raw mode off, alternate screen left, cursor
\* shown; and the report comes after that.
C17_HookLeavesShutdownState ==
  (pc \in {"hook_report", "unwind"} \/ HasPanicReport) =>
    (~terminal.raw /\ ~terminal.alt /\ ~terminal.cursor_hidden)

\* C17 amended: once the hook has released the terminal, raw mode is off and
\* the alternate screen is left, whatever the terminal was like at the panic,
\* and the crash report is written only after that; the hook does not show
\* the cursor.
C17_HookRestoresBeforeReport ==
  /\ (pc \in {"hook_report", "unwind"} \/ HasPanicReport) =>
       (~terminal.raw /\ ~terminal.alt)
  /\ pc \in {"hook_raw", "hook_alt", "hook_report"} => ~HasPanicReport

C17_Witness ==
  /\ pc = "unwind" /\ panicAt = "draw" /\ everRaw
  /\ HasPanicReport /\ ~terminal.raw /\ ~terminal.alt /\ terminal.cursor_hidden

\* C18: a frame is drawn only when as many frames as events are behind, an
\* event is taken only when one more frame than events is behind, and the
\* frame behind then shows the App as it is.
C18_DrawThenEventAlternate ==
  [][ /\ frames' # frames =>
           (frames' = frames + 1 /\ frames = consumed /\ consumed' = consumed)
      /\ consumed' # consumed =>
           (/\ consumed' = consumed + 1 /\ frames = consumed + 1 /\ frames' = frames
            /\ lastFrame = app) ]_vars

C18_Witness ==
  /\ pc = "loop_next" /\ frames = 3 /\ consumed = 2
  /\ lastFrame = app /\ app.mode = "EditingToken"

SessionPcs == {"ui_raw", "ui_alt", "ui_term", "ui_clear", "ui_hide", "ui_events",
               "loop_lock", "loop_draw", "loop_next", "loop_quit", "ui_show",
               "sd_raw", "sd_alt", "sd_show", "hook_raw", "hook_alt", "hook_report",
               "unwind"}
InSession ==
  \/ pc \in SessionPcs
  \/ pc = "exited" /\ (exit \in {"err", "panic", "abort"} \/ loopExit # "none")
OnStdoutPath ==
  \/ pc \in {"stdout_decode", "stdout_print"}
  \/ pc = "exited" /\ \E i \in 1..Len(output) : output[i].kind \in {"result", "error"}

C20_SizeErrorNotFatal ==
  [][ (pc = "loop_lock" /\ pc' # pc /\ termSize' = "Err") =>
        (app'.size = app.size /\ pc' = "loop_draw" /\ exit' = "none"
         /\ loopExit' = "none") ]_vars

C20_Witness ==
  /\ termSize = "Err" /\ pc = "loop_quit" /\ frames = 2 /\ consumed = 2
  /\ app.size = "80x24" /\ lastFrame.size = "80x24"

====
